---------------------------- MODULE Spec2Model ----------------------------
(***************************************************************************)
(* Model of the FIFO project's analysis scripts (src/scripts):             *)
(*   analyze_performance.py, check_coverage.py, analyze_synthesis.py,      *)
(*   synthesis_summary.py, plot_results.py.                                *)
(*                                                                         *)
(* Every script is a one-shot batch process, and a behaviour is one        *)
(* process.  The state is the state of that process: which script it is,   *)
(* the files it read, the                                                  *)
(* per-variant data it derived, what it printed or returned, and how it    *)
(* ended.  Text is modelled as tuples of one-character strings, so that    *)
(* lower(), replace(), title(), strip() and the `in` substring test are    *)
(* computed and not assumed.  A file is a sequence of lines; a line is a   *)
(* record naming the one pattern of the scripts it matches and the groups  *)
(* the pattern captures.  Floating-point values are exact rationals.       *)
(***************************************************************************)
EXTENDS Integers, Sequences, FiniteSets, TLC

VARIABLES
    script,       \* the script the process runs ("none" before any run)
    pc,           \* where the process is in the script's main()
    files,        \* the input files of the run: name -> [exists, lines]
    sync_data,    \* what the run derived for the synchronous FIFO
    async_data,   \* what the run derived for the asynchronous FIFO
    now,          \* the wall clock the run read (datetime.now(), formatted)
    output,       \* the lines the run returned / printed, in order
    earlier_output, \* the report of an earlier run on the same files (<<>> if
                  \* this is the first run)
    exit_status   \* [exc, line, code]: the uncaught exception and the source
                  \* line that raised it (exc = "" if none), the exit code

vars == <<script, pc, files, now, sync_data, async_data, output, earlier_output,
          exit_status>>

---------------------------------------------------------------------------
(* Bounds of the model.                                                    *)

\* lines of the two simulation logs of one analyze_performance run, together
MaxLogLines == 3

\* lines of the two simulation logs of one plot_results run, together
MaxPlotLines == 2

\* task declarations of the two testbenches of one check_coverage run, together
MaxTasks == 2

\* result lines of the two logs of one check_coverage run, together
MaxCoverageLines == 2

\* result lines of fifo_sync.log in a check_coverage run without fifo_async.log
MaxResultLines == 3

\* result lines of the log of one repeated check_test_execution
MaxRecheckLines == 1

\* lines of the two synthesis reports of one analyze_synthesis run, together
MaxReportLines == 3

\* lines of the two synthesis reports of one synthesis_summary run, together
MaxSummaryLines == 3

---------------------------------------------------------------------------
(* Python str operations on tuples of characters.                          *)

LowerLetters ==
    <<"a","b","c","d","e","f","g","h","i","j","k","l","m",
      "n","o","p","q","r","s","t","u","v","w","x","y","z">>

UpperLetters ==
    <<"A","B","C","D","E","F","G","H","I","J","K","L","M",
      "N","O","P","Q","R","S","T","U","V","W","X","Y","Z">>

UpperSet == {UpperLetters[i] : i \in 1..26}

LowerSet == {LowerLetters[i] : i \in 1..26}

\* the lower-case letter of each upper-case letter, and the reverse
ToLower == [c \in UpperSet |-> LowerLetters[CHOOSE i \in 1..26 : UpperLetters[i] = c]]

ToUpper == [c \in LowerSet |-> UpperLetters[CHOOSE i \in 1..26 : LowerLetters[i] = c]]

IsUpper(c) == c \in UpperSet

IsLower(c) == c \in LowerSet

IsLetter(c) == IsUpper(c) \/ IsLower(c)

LowerChar(c) == IF IsUpper(c) THEN ToLower[c] ELSE c

UpperChar(c) == IF IsLower(c) THEN ToUpper[c] ELSE c

\* str.lower()
RECURSIVE Lower(_)
Lower(s) == IF s = <<>> THEN <<>> ELSE <<LowerChar(Head(s))>> \o Lower(Tail(s))

RECURSIVE TitleFrom(_, _)
TitleFrom(s, i) ==
    IF i > Len(s) THEN <<>>
    ELSE <<IF i = 1 \/ ~IsLetter(s[i - 1]) THEN UpperChar(s[i]) ELSE LowerChar(s[i])>>
         \o TitleFrom(s, i + 1)

\* str.title(): a letter that follows a non-letter is upper-cased, every
\* other letter is lower-cased
Title(s) == TitleFrom(s, 1)

\* sub occurs in s at position i
MatchAt(s, sub, i) ==
    /\ i + Len(sub) - 1 <= Len(s)
    /\ \A j \in 1..Len(sub) : s[i + j - 1] = sub[j]

\* the Python test `sub in s`
Contains(s, sub) == \E i \in 1..(Len(s) + 1) : MatchAt(s, sub, i)

\* str.startswith
StartsWith(s, prefix) == MatchAt(s, prefix, 1)

RECURSIVE ReplaceFrom(_, _, _, _)
ReplaceFrom(s, old, new, i) ==
    IF i > Len(s) THEN <<>>
    ELSE IF MatchAt(s, old, i) THEN new \o ReplaceFrom(s, old, new, i + Len(old))
    ELSE <<s[i]>> \o ReplaceFrom(s, old, new, i + 1)

\* str.replace(old, new) for a non-empty old: every occurrence, leftmost
\* first, non-overlapping
Replace(s, old, new) == ReplaceFrom(s, old, new, 1)

RECURSIVE LStrip(_)
LStrip(s) == IF s # <<>> /\ Head(s) = " " THEN LStrip(Tail(s)) ELSE s

RECURSIVE RStrip(_)
RStrip(s) ==
    IF s # <<>> /\ s[Len(s)] = " " THEN RStrip(SubSeq(s, 1, Len(s) - 1)) ELSE s

\* str.strip()
Strip(s) == RStrip(LStrip(s))

---------------------------------------------------------------------------
(* Files, exceptions, numbers.                                             *)

Missing == [exists |-> FALSE, lines |-> <<>>]

File(ls) == [exists |-> TRUE, lines |-> ls]

\* no exception
NoExc == [exc |-> "", line |-> 0, code |-> 0]

\* exception e raised at source line ln (uncaught, it ends the process
\* with exit code 1)
Raised(e, ln) == [exc |-> e, line |-> ln, code |-> 1]

\* sys.exit(code) without an exception
Exit(code) == [exc |-> "", line |-> 0, code |-> code]

\* a / b rounded to the nearest integer instead of floored
FloorDiv_rounded(a, b) ==
    IF b = 0 THEN [ok |-> FALSE, v |-> 0]
    ELSE [ok |-> TRUE, v |-> (2 * a + b) \div (2 * b)]

\* Python's a // b on non-negative integers: a value, or ZeroDivisionError
FloorDiv(a, b) ==
    IF b = 0 THEN [ok |-> FALSE, v |-> 0] ELSE [ok |-> TRUE, v |-> a \div b]

\* an exact rational n/d for a float
Ratio(n, d) == [num |-> n, den |-> d]

RECURSIVE SeqSum(_)
SeqSum(s) == IF s = <<>> THEN 0 ELSE Head(s) + SeqSum(Tail(s))

\* all sequences over S of length at most n
SeqsUpTo(S, n) == UNION {[1..k -> S] : k \in 0..n}

\* the first line of kind k, or the empty sequence (re.search finds the
\* leftmost match)
FirstOf(ls, k) ==
    LET m == SelectSeq(ls, LAMBDA l : l.k = k)
    IN  IF m = <<>> THEN <<>> ELSE <<Head(m)>>

---------------------------------------------------------------------------
(* Simulation logs.  A line matches at most one pattern of the scripts:    *)
(*   "test"       [TEST <n>] <name>.... PASS|FAIL                          *)
(*   "writes"     Total Writes: <a>                                        *)
(*   "reads"      Total Reads: <a>                                         *)
(*   "peak"       Peak Occupancy: <a>/<b>                                  *)
(*   "throughput" Throughput: <a/100> MB/s                                 *)
(*   "success"    Success Rate: <a>%                                       *)
(*   "passed"     Passed: <a>        "failed"  Failed: <a>                 *)
(*   "other"      anything else                                            *)

LogLine(k, name, verdict, a, b) ==
    [k |-> k, name |-> name, verdict |-> verdict, a |-> a, b |-> b]

TestLine(name, verdict) == LogLine("test", name, verdict, 0, 0)

NumLine(k, a) == LogLine(k, <<>>, "", a, 0)

PeakLine(p, d) == LogLine("peak", <<>>, "", p, d)

---------------------------------------------------------------------------
(* analyze_performance.py                                                  *)

\* PerformanceMetrics(); throughput_mbps is kept in hundredths of a MB/s
DefaultMetrics ==
    [total_writes |-> 0, total_reads |-> 0, peak_occupancy |-> 0,
     fifo_depth |-> 16, throughput_mbps |-> 0, success_rate |-> 0]

\* TestResult(name, passed, details="")
TestResult(name, passed) == [name |-> name, passed |-> passed, details |-> <<>>]

\* the loop over re.finditer(test_pattern, content)
ParseTests(ls) ==
    LET m == SelectSeq(ls, LAMBDA l : l.k = "test")
    IN  [i \in 1..Len(m) |-> TestResult(Strip(m[i].name), m[i].verdict = "PASS")]

\* the five re.search blocks filling the metrics
ParseMetrics(ls) ==
    LET w == FirstOf(ls, "writes")
        r == FirstOf(ls, "reads")
        p == FirstOf(ls, "peak")
        t == FirstOf(ls, "throughput")
        s == FirstOf(ls, "success")
    IN  [total_writes    |-> IF w # <<>> THEN w[1].a ELSE DefaultMetrics.total_writes,
         total_reads     |-> IF r # <<>> THEN r[1].a ELSE DefaultMetrics.total_reads,
         peak_occupancy  |-> IF p # <<>> THEN p[1].a ELSE DefaultMetrics.peak_occupancy,
         fifo_depth      |-> IF p # <<>> THEN p[1].b ELSE DefaultMetrics.fifo_depth,
         throughput_mbps |-> IF t # <<>> THEN t[1].a ELSE DefaultMetrics.throughput_mbps,
         success_rate    |-> IF s # <<>> THEN s[1].a ELSE DefaultMetrics.success_rate]

\* parse_sync_log without its test for the file: open() raises
parse_sync_log_unchecked(log_file) ==
    IF ~log_file.exists
    THEN [exc |-> Raised("FileNotFoundError", 65), tests |-> <<>>,
          metrics |-> DefaultMetrics]
    ELSE [exc |-> NoExc, tests |-> ParseTests(log_file.lines),
          metrics |-> ParseMetrics(log_file.lines)]

parse_sync_log(log_file) ==
    IF ~log_file.exists
    THEN [exc |-> NoExc, tests |-> <<>>, metrics |-> DefaultMetrics]
    ELSE [exc |-> NoExc, tests |-> ParseTests(log_file.lines),
          metrics |-> ParseMetrics(log_file.lines)]

parse_async_log(log_file) == parse_sync_log(log_file)

\* one line of the report: a literal text (k = "text", s the text), or a
\* formatted line of kind k with the values it interpolates
ReportLine(k, s, name, a, b, c) ==
    [k |-> k, s |-> s, name |-> name, a |-> a, b |-> b, c |-> c]

Text(s) == ReportLine("text", s, <<>>, 0, 0, 0)

Blank == Text("")

Rule(ch) == ReportLine("rule", ch, <<>>, 70, 0, 0)

\* a piece of the report under construction: the exception that ended it,
\* if any, and the lines appended so far
Piece(ls) == [exc |-> NoExc, lines |-> ls]

Failed(e, ln) == [exc |-> Raised(e, ln), lines |-> <<>>]

\* statements in sequence: the second runs only if the first did not raise
Then(p, q) ==
    IF p.exc.exc # "" THEN p
    ELSE [exc |-> q.exc, lines |-> p.lines \o q.lines]

CountPassed(tests) == Len(SelectSeq(tests, LAMBDA t : t.passed))

TestLines(tests) ==
    [i \in 1..Len(tests) |->
        ReportLine("test", IF tests[i].passed THEN "PASS" ELSE "FAIL",
                   tests[i].name, 0, 0, 0)]

\* the "Summary:" line; ln is the source line of its floor division
SummaryLine(tests, ln) ==
    LET passed == CountPassed(tests)
        pct == FloorDiv(passed * 100, Len(tests))
    IN  IF pct.ok
        THEN Piece(<<ReportLine("summary", "", <<>>, passed, Len(tests), pct.v)>>)
        ELSE Failed("ZeroDivisionError", ln)

\* `if sync_tests:` / `if async_tests:` and its body
TestSection(tests, ln) ==
    IF tests # <<>>
    THEN Then(Piece(<<Blank, Text("Test Results:")>> \o TestLines(tests) \o <<Blank>>),
              SummaryLine(tests, ln))
    ELSE Piece(<<>>)

ThroughputLines(m) ==
    IF m.throughput_mbps > 0
    THEN <<ReportLine("throughput", "", <<>>, m.throughput_mbps, 0, 0)>>
    ELSE <<>>

\* the "Peak Occupancy:" line of the synchronous section
OccupancyLine(m) ==
    LET pct == FloorDiv(m.peak_occupancy * 100, m.fifo_depth)
    IN  IF pct.ok
        THEN Piece(<<ReportLine("peak_occupancy", "", <<>>, m.peak_occupancy,
                                m.fifo_depth, pct.v)>>)
        ELSE Failed("ZeroDivisionError", 143)

\* `if sync_metrics.total_writes > 0:` and its body
SyncMetricsSection(m) ==
    IF m.total_writes > 0
    THEN Then(Then(Piece(<<Blank, Text("Performance Metrics:"),
                           ReportLine("total_writes", "", <<>>, m.total_writes, 0, 0),
                           ReportLine("total_reads", "", <<>>, m.total_reads, 0, 0)>>),
                   OccupancyLine(m)),
              Piece(ThroughputLines(m)))
    ELSE Piece(<<>>)

\* `if async_metrics.total_writes > 0:` and its body
AsyncMetricsSection(m) ==
    IF m.total_writes > 0
    THEN Piece(<<Blank, Text("Performance Metrics:"),
                 ReportLine("total_writes", "", <<>>, m.total_writes, 0, 0),
                 ReportLine("total_reads", "", <<>>, m.total_reads, 0, 0)>>
               \o ThroughputLines(m))
    ELSE Piece(<<>>)

\* all_passed and the if / elif / else that appends the status
OverallStatus(sync_tests, async_tests) ==
    LET total_sync_tests == Len(sync_tests)
        total_async_tests == Len(async_tests)
        sync_passed == CountPassed(sync_tests)
        async_passed == CountPassed(async_tests)
        all_passed == /\ sync_passed = total_sync_tests
                      /\ async_passed = total_async_tests
                      /\ total_sync_tests > 0
                      /\ total_async_tests > 0
    IN  IF all_passed THEN <<Text("OVERALL STATUS: ALL TESTS PASSED")>>
        ELSE IF total_sync_tests = 0 /\ total_async_tests = 0
        THEN <<Text("OVERALL STATUS: NO SIMULATION DATA FOUND"),
               Text("Run 'make test' in the sim/ directory first.")>>
        ELSE <<Text("OVERALL STATUS: SOME TESTS FAILED")>>

\* the comparison table
ComparisonSummary(sync_results, async_results) ==
    LET total_sync_tests == Len(sync_results.tests)
        total_async_tests == Len(async_results.tests)
        sync_passed == CountPassed(sync_results.tests)
        async_passed == CountPassed(async_results.tests)
    IN  <<Rule("-"), Text("COMPARISON SUMMARY"), Rule("-"), Blank,
          Text("                          Sync FIFO    Async FIFO"),
          Text("                          ---------    ----------"),
          ReportLine("tests_passed", "", <<>>, sync_passed, async_passed, 0),
          ReportLine("tests_failed", "", <<>>, total_sync_tests - sync_passed,
                     total_async_tests - async_passed, 0),
          ReportLine("cmp_writes", "", <<>>, sync_results.metrics.total_writes,
                     async_results.metrics.total_writes, 0),
          ReportLine("cmp_reads", "", <<>>, sync_results.metrics.total_reads,
                     async_results.metrics.total_reads, 0),
          Blank, Rule("=")>>

\* generate_report: the report text as its lines, or the exception raised
\* while building it (nothing is returned or written then)
generate_report(sync_results, async_results, clock) ==
    Then(Piece(<<Rule("="), Text("FIFO PROJECT - PERFORMANCE ANALYSIS REPORT"),
                 Rule("="), ReportLine("generated", clock, <<>>, 0, 0, 0), Blank,
                 Rule("-"), Text("SYNCHRONOUS FIFO RESULTS"), Rule("-")>>),
    Then(TestSection(sync_results.tests, 135),
    Then(SyncMetricsSection(sync_results.metrics),
    Then(Piece(<<Blank, Rule("-"), Text("ASYNCHRONOUS FIFO RESULTS"), Rule("-")>>),
    Then(TestSection(async_results.tests, 163),
    Then(AsyncMetricsSection(async_results.metrics),
         Piece(<<Blank>>
               \o ComparisonSummary(sync_results, async_results)
               \o OverallStatus(sync_results.tests, async_results.tests)
               \o <<Rule("=")>>)))))))

\* the log lines an analyze_performance run is given
PerfLogLines ==
    {TestLine(<<"F","i","l","l">>, "PASS"), TestLine(<<"F","i","l","l">>, "FAIL"),
     NumLine("writes", 5), NumLine("reads", 5), PeakLine(12, 16), PeakLine(3, 0),
     PeakLine(20, 16), NumLine("throughput", 250)}

\* the values of datetime.now().strftime(...) a run may read
Times == {"2026-01-01 00:00:00", "2026-01-01 00:00:01"}

\* no file read; `unwritable` names the chart file that cannot be drawn or
\* saved ("" if none)
NoFiles ==
    [sync_log |-> Missing, async_log |-> Missing, sync_tb |-> Missing,
     async_tb |-> Missing, sync_report |-> Missing, async_report |-> Missing,
     unwritable |-> ""]

\* the exception that ends a run: the first one raised, if any
FirstExc(excs) ==
    LET r == SelectSeq(excs, LAMBDA e : e.exc # "")
    IN  IF r = <<>> THEN NoExc ELSE Head(r)

\* main() of analyze_performance.py on the two logs
AnalyzePerformance(sync_log, async_log, clock) ==
    LET sync_results == parse_sync_log(sync_log)
        async_results == parse_async_log(async_log)
        report == IF sync_results.exc.exc # "" \/ async_results.exc.exc # ""
                  THEN Piece(<<>>)
                  ELSE generate_report(sync_results, async_results, clock)
    IN  /\ script' = "analyze_performance"
        /\ files' = [NoFiles EXCEPT !.sync_log = sync_log, !.async_log = async_log]
        /\ now' = clock
        /\ sync_data' = sync_results
        /\ async_data' = async_results
        /\ output' = report.lines
        /\ exit_status' = FirstExc(<<sync_results.exc, async_results.exc, report.exc>>)

RunAnalyzePerformance ==
    /\ script = "none"
    /\ pc' = "done"
    /\ earlier_output' = earlier_output
    /\ \E k \in 0..MaxLogLines :
        \E j \in 0..(MaxLogLines - k) :
          \E s \in [1..k -> PerfLogLines], a \in [1..j -> PerfLogLines] :
            \E sync_exists \in {b \in BOOLEAN : b \/ k = 0},
               async_exists \in {b \in BOOLEAN : b \/ j = 0},
               clock \in Times :
              AnalyzePerformance(IF sync_exists THEN File(s) ELSE Missing,
                                 IF async_exists THEN File(a) ELSE Missing, clock)

\* main() of analyze_performance.py run once more on the files of the run
\* before, at whatever time the clock then shows
RerunAnalyzePerformance ==
    /\ script = "analyze_performance"
    /\ pc = "done"
    /\ earlier_output' = output
    /\ \E clock \in Times :
          AnalyzePerformance(files.sync_log, files.async_log, clock)
    /\ pc' = "rerun"

---------------------------------------------------------------------------
(* plot_results.py                                                         *)

\* the metrics dict parse_metrics starts from; throughput in hundredths
DefaultPlotMetrics ==
    [total_writes |-> 0, total_reads |-> 0, peak_occupancy |-> 0,
     fifo_depth |-> 16, throughput |-> 0, tests_passed |-> 0, tests_failed |-> 0]

\* the loop over `patterns` and the peak match
ParsePlotMetrics(ls) ==
    LET w == FirstOf(ls, "writes")
        r == FirstOf(ls, "reads")
        t == FirstOf(ls, "throughput")
        ps == FirstOf(ls, "passed")
        fl == FirstOf(ls, "failed")
        p == FirstOf(ls, "peak")
    IN  [total_writes   |-> IF w # <<>> THEN w[1].a ELSE DefaultPlotMetrics.total_writes,
         total_reads    |-> IF r # <<>> THEN r[1].a ELSE DefaultPlotMetrics.total_reads,
         peak_occupancy |-> IF p # <<>> THEN p[1].a ELSE DefaultPlotMetrics.peak_occupancy,
         fifo_depth     |-> IF p # <<>> THEN p[1].b ELSE DefaultPlotMetrics.fifo_depth,
         throughput     |-> IF t # <<>> THEN t[1].a ELSE DefaultPlotMetrics.throughput,
         tests_passed   |-> IF ps # <<>> THEN ps[1].a ELSE DefaultPlotMetrics.tests_passed,
         tests_failed   |-> IF fl # <<>> THEN fl[1].a ELSE DefaultPlotMetrics.tests_failed]

parse_metrics(log_file) ==
    IF ~log_file.exists
    THEN [exc |-> NoExc, metrics |-> DefaultPlotMetrics]
    ELSE [exc |-> NoExc, metrics |-> ParsePlotMetrics(log_file.lines)]

\* the four charts, in the order main() draws them
Charts == <<"test_results.png", "throughput_comparison.png", "occupancy.png",
            "transactions.png">>

\* the source line of each chart's plt.savefig
SaveLine(i) == <<126, 164, 215, 260>>[i]

\* one plot_* call: the artifact it saved, or the exception it raised.
\* `broken` is the chart whose drawing or saving fails in the plotting
\* library (0: none); plot_occupancy divides by the synchronous fifo_depth
PlotChart(i, sync_metrics, async_metrics, broken) ==
    IF broken = i THEN Failed("PlotError", SaveLine(i))
    ELSE IF Charts[i] = "occupancy.png" /\ sync_metrics.fifo_depth = 0
    THEN Failed("ZeroDivisionError", 207)
    ELSE Piece(<<ReportLine("generated_chart", Charts[i], <<>>, 0, 0, 0)>>)

\* the four calls of main(), in sequence
PlotAll(sync_metrics, async_metrics, broken) ==
    Then(PlotChart(1, sync_metrics, async_metrics, broken),
    Then(PlotChart(2, sync_metrics, async_metrics, broken),
    Then(PlotChart(3, sync_metrics, async_metrics, broken),
         PlotChart(4, sync_metrics, async_metrics, broken))))

\* main() of plot_results.py
PlotResults(has_matplotlib, sync_log, async_log, broken) ==
    LET sync_metrics == parse_metrics(sync_log)
        async_metrics == parse_metrics(async_log)
        plots == IF sync_metrics.exc.exc # "" \/ async_metrics.exc.exc # ""
                 THEN Piece(<<>>)
                 ELSE PlotAll(sync_metrics.metrics, async_metrics.metrics, broken)
    IN  /\ script' = "plot_results"
        /\ pc' = "done"
        /\ now' = ""
        /\ IF ~has_matplotlib
           THEN /\ files' = NoFiles
                /\ sync_data' = <<>>
                /\ async_data' = <<>>
                /\ output' = <<>>
                /\ exit_status' = Exit(1)
           ELSE /\ files' = [NoFiles EXCEPT !.sync_log = sync_log,
                                            !.async_log = async_log,
                                            !.unwritable = IF broken = 0 THEN ""
                                                           ELSE Charts[broken]]
                /\ sync_data' = sync_metrics
                /\ async_data' = async_metrics
                /\ output' = plots.lines
                /\ exit_status' =
                      FirstExc(<<sync_metrics.exc, async_metrics.exc, plots.exc>>)

\* the log lines a plot_results run is given
PlotLogLines ==
    {NumLine("writes", 5), NumLine("throughput", 250), PeakLine(12, 16),
     PeakLine(3, 0), PeakLine(20, 16), NumLine("passed", 3), NumLine("failed", 1)}

RunPlotResults ==
    /\ script = "none"
    /\ earlier_output' = earlier_output
    /\ \E k \in 0..MaxPlotLines :
        \E j \in 0..(MaxPlotLines - k) :
          \E s \in [1..k -> PlotLogLines], a \in [1..j -> PlotLogLines] :
            \E sync_exists \in {b \in BOOLEAN : b \/ k = 0},
               async_exists \in {b \in BOOLEAN : b \/ j = 0},
               has_matplotlib \in BOOLEAN, broken \in 0..Len(Charts) :
              PlotResults(has_matplotlib,
                          IF sync_exists THEN File(s) ELSE Missing,
                          IF async_exists THEN File(a) ELSE Missing, broken)

---------------------------------------------------------------------------
(* check_coverage.py                                                       *)

\* "test_", "_" and " " as text
TestMarker == <<"t","e","s","t","_">>

Underscore == <<"_">>

Space == <<" ">>

\* TestScenario(name, category, description, executed=False, passed=False)
TestScenario(name, category, description) ==
    [name |-> name, category |-> category, description |-> description,
     executed |-> FALSE, passed |-> FALSE]

\* a declaration `task <name>;` matches task_pattern when <name> is test_\w+
IsTestTask(l) == l.k = "task" /\ StartsWith(l.name, TestMarker) /\ Len(l.name) > 5

\* task_name.replace('test_', '').replace('_', ' ')
NormalizedName(task_name) == Replace(Replace(task_name, TestMarker, <<>>), Underscore, Space)

\* the loop over re.finditer(task_pattern, content)
RECURSIVE ScenariosOf(_)
ScenariosOf(m) ==
    IF m = <<>> THEN <<>>
    ELSE <<TestScenario(Head(m).name, "functional", Title(NormalizedName(Head(m).name)))>>
         \o ScenariosOf(Tail(m))

\* extract_tests_from_testbench
extract_tests_from_testbench(tb_file) ==
    IF ~tb_file.exists THEN <<>>
    ELSE ScenariosOf(SelectSeq(tb_file.lines, IsTestTask))

\* a dict as the sequence of its items in insertion order
DictHas(d, key) == \E i \in 1..Len(d) : d[i].key = key

DictGet(d, key) == d[CHOOSE i \in 1..Len(d) : d[i].key = key].val

\* an assignment that moves a present key to the end of the dict
DictPut_moving(d, key, val) ==
    Append(SelectSeq(d, LAMBDA item : item.key # key), [key |-> key, val |-> val])

\* d[key] = val: a present key keeps its place and takes the new value
DictPut(d, key, val) ==
    IF DictHas(d, key)
    THEN [i \in 1..Len(d) |-> IF d[i].key = key THEN [key |-> key, val |-> val] ELSE d[i]]
    ELSE Append(d, [key |-> key, val |-> val])

RECURSIVE ExecutedTestsFrom(_, _)
ExecutedTestsFrom(m, d) ==
    IF m = <<>> THEN d
    ELSE ExecutedTestsFrom(Tail(m),
             DictPut(d, Lower(Strip(Head(m).name)), Head(m).verdict = "PASS"))

\* the executed_tests dict built from the result lines of the log
ExecutedTests(ls) == ExecutedTestsFrom(SelectSeq(ls, LAMBDA l : l.k = "test"), <<>>)

\* the fallback test of the inner loop
FallbackMatches(test, key) ==
    \/ Contains(key, NormalizedName(test.name))
    \/ Contains(NormalizedName(test.name), key)

\* the inner loop taking the last fallback match (no break)
FallbackIndex_last(test, executed_tests) ==
    LET hits == {i \in 1..Len(executed_tests) : FallbackMatches(test, executed_tests[i].key)}
    IN  IF hits = {} THEN 0 ELSE CHOOSE i \in hits : \A j \in hits : j <= i

\* the item the inner loop stops at: the first fallback match (0: none)
FallbackIndex(test, executed_tests) ==
    LET hits == {i \in 1..Len(executed_tests) : FallbackMatches(test, executed_tests[i].key)}
    IN  IF hits = {} THEN 0 ELSE CHOOSE i \in hits : \A j \in hits : i <= j

\* the body of `for test in tests:` made to clear `executed` of a scenario
\* that the log does not hold
UpdateTest_clearing(test, executed_tests) ==
    LET test_key == Lower(test.description)
        i == FallbackIndex(test, executed_tests)
    IN  IF DictHas(executed_tests, test_key)
        THEN [test EXCEPT !.executed = TRUE, !.passed = DictGet(executed_tests, test_key)]
        ELSE IF i # 0
        THEN [test EXCEPT !.executed = TRUE, !.passed = executed_tests[i].val]
        ELSE [test EXCEPT !.executed = FALSE]

\* the body of `for test in tests:`
UpdateTest(test, executed_tests) ==
    LET test_key == Lower(test.description)
        i == FallbackIndex(test, executed_tests)
    IN  IF DictHas(executed_tests, test_key)
        THEN [test EXCEPT !.executed = TRUE, !.passed = DictGet(executed_tests, test_key)]
        ELSE IF i # 0
        THEN [test EXCEPT !.executed = TRUE, !.passed = executed_tests[i].val]
        ELSE test

\* the loop `for test in tests:` over the executed_tests dict
RECURSIVE UpdateTests(_, _)
UpdateTests(tests, executed_tests) ==
    IF tests = <<>> THEN <<>>
    ELSE <<UpdateTest(Head(tests), executed_tests)>>
         \o UpdateTests(Tail(tests), executed_tests)

\* check_test_execution
check_test_execution(log_file, tests) ==
    IF ~log_file.exists THEN tests
    ELSE UpdateTests(tests, ExecutedTests(log_file.lines))

\* the names of required_tests, category by category
RequiredTests ==
    <<<<"R","e","s","e","t"," ","b","e","h","a","v","i","o","r">>,
      <<"S","i","n","g","l","e"," ","w","r","i","t","e","/","r","e","a","d">>,
      <<"F","i","l","l"," ","F","I","F","O">>,
      <<"D","r","a","i","n"," ","F","I","F","O">>,
      <<"S","i","m","u","l","t","a","n","e","o","u","s"," ","r","e","a","d","/","w","r","i","t","e">>,
      <<"O","v","e","r","f","l","o","w"," ","d","e","t","e","c","t","i","o","n">>,
      <<"U","n","d","e","r","f","l","o","w"," ","d","e","t","e","c","t","i","o","n">>,
      <<"P","o","i","n","t","e","r"," ","w","r","a","p","-","a","r","o","u","n","d">>,
      <<"R","a","n","d","o","m"," ","o","p","e","r","a","t","i","o","n","s">>,
      <<"B","u","r","s","t"," ","o","p","e","r","a","t","i","o","n","s">>,
      <<"P","e","r","f","o","r","m","a","n","c","e"," ","t","e","s","t">>,
      <<"C","l","o","c","k"," ","r","a","t","i","o"," ","v","a","r","i","a","t","i","o","n","s">>,
      <<"C","D","C"," ","s","t","r","e","s","s"," ","t","e","s","t">>>>

RequiredTestsLower == [i \in 1..Len(RequiredTests) |-> Lower(RequiredTests[i])]

\* a // b behind `if b > 0 else 0`
GuardedPercent(a, b) == IF b > 0 THEN FloorDiv(a * 100, b).v ELSE 0

CountExecuted(tests) == Len(SelectSeq(tests, LAMBDA t : t.executed))

CountScenariosPassed(tests) == Len(SelectSeq(tests, LAMBDA t : t.passed))

\* one "Test Status:" line
StatusLine(test) ==
    ReportLine("test_status",
               IF test.passed THEN "PASS" ELSE IF test.executed THEN "FAIL" ELSE "NOT RUN",
               test.description, 0, 0, 0)

\* one variant's coverage section
CoverageSection(heading, tests) ==
    <<Rule("-"), Text(heading), Rule("-"),
      ReportLine("tests_defined", "", <<>>, Len(tests), 0, 0),
      ReportLine("tests_executed", "", <<>>, CountExecuted(tests), 0, 0),
      ReportLine("coverage", heading, <<>>, CountExecuted(tests), Len(tests),
                 GuardedPercent(CountExecuted(tests), Len(tests))),
      Blank, Text("Test Status:")>>
    \o [i \in 1..Len(tests) |-> StatusLine(tests[i])]
    \o <<Blank>>

\* the required-coverage checklist
ChecklistOf(all_test_names) ==
    [i \in 1..Len(RequiredTests) |->
        ReportLine("required",
                   IF \E j \in 1..Len(all_test_names) :
                          Contains(all_test_names[j], RequiredTestsLower[i])
                   THEN "[x]" ELSE "[ ]",
                   RequiredTests[i], 0, 0, 0)]

RECURSIVE LowerDescriptions(_)
LowerDescriptions(tests) ==
    IF tests = <<>> THEN <<>>
    ELSE <<Lower(Head(tests).description)>> \o LowerDescriptions(Tail(tests))

Checklist(all_tests) == ChecklistOf(LowerDescriptions(all_tests))

\* generate_coverage_report
CoverageSummary(total_executed, total_tests, total_passed) ==
    <<Rule("="),
      ReportLine("overall_coverage", "", <<>>, total_executed, total_tests,
                 GuardedPercent(total_executed, total_tests)),
      ReportLine("pass_rate", "", <<>>, total_passed, total_executed,
                 GuardedPercent(total_passed, total_executed)),
      Rule("=")>>

\* generate_coverage_report
generate_coverage_report(sync_tests, async_tests) ==
    <<Rule("="), Text("FIFO PROJECT - TEST COVERAGE REPORT"), Rule("="), Blank>>
    \o CoverageSection("SYNCHRONOUS FIFO COVERAGE", sync_tests)
    \o CoverageSection("ASYNCHRONOUS FIFO COVERAGE", async_tests)
    \o <<Rule("-"), Text("REQUIRED TEST COVERAGE CHECKLIST"), Rule("-"), Blank>>
    \o Checklist(sync_tests \o async_tests)
    \o CoverageSummary(CountExecuted(sync_tests) + CountExecuted(async_tests),
                       Len(sync_tests) + Len(async_tests),
                       CountScenariosPassed(sync_tests \o async_tests))

\* the task declarations a testbench is given
TaskLines ==
    {LogLine("task", <<"t","e","s","t","_","r","e","s","e","t","_","b","e","h","a","v","i","o","r">>, "", 0, 0),
     LogLine("task", <<"t","e","s","t","_","R","e","s","e","t","_","B","e","h","a","v","i","o","r">>, "", 0, 0),
     LogLine("task", <<"t","e","s","t","_","l","a","t","e","s","t","_","v","a","l","u","e">>, "", 0, 0)}

\* the result lines a check_coverage run is given
CoverageLogLines ==
    {TestLine(<<"R","e","s","e","t"," ","B","e","h","a","v","i","o","r"," ","C","h","e","c","k">>, "PASS"),
     TestLine(<<"F","u","l","l"," ","R","e","s","e","t"," ","B","e","h","a","v","i","o","r">>, "FAIL"),
     TestLine(<<"R","e","s","e","t"," ","B","e","h","a","v","i","o","r">>, "PASS"),
     TestLine(<<"R","E","S","E","T"," ","B","E","H","A","V","I","O","R">>, "FAIL")}

\* main() of check_coverage.py, first part: the scenarios of the two
\* testbenches are extracted
ExtractTests(sync_tb, async_tb) ==
    /\ script' = "check_coverage"
    /\ pc' = "extracted"
    /\ files' = [NoFiles EXCEPT !.sync_tb = sync_tb, !.async_tb = async_tb]
    /\ sync_data' = extract_tests_from_testbench(sync_tb)
    /\ async_data' = extract_tests_from_testbench(async_tb)
    /\ UNCHANGED <<now, output, earlier_output, exit_status>>

RunExtractTests ==
    /\ script = "none"
    /\ \E k \in 0..MaxTasks :
        \E j \in 0..(MaxTasks - k) :
          \E st \in [1..k -> TaskLines], at \in [1..j -> TaskLines] :
            \E st_exists \in {b \in BOOLEAN : b \/ k = 0},
               at_exists \in {b \in BOOLEAN : b \/ j = 0} :
              ExtractTests(IF st_exists THEN File(st) ELSE Missing,
                           IF at_exists THEN File(at) ELSE Missing)

\* main(), second part: the scenarios are matched against the two logs
CheckTestExecution(sync_log, async_log) ==
    /\ pc' = "checked"
    /\ files' = [files EXCEPT !.sync_log = sync_log, !.async_log = async_log]
    /\ sync_data' = check_test_execution(sync_log, sync_data)
    /\ async_data' = check_test_execution(async_log, async_data)
    /\ UNCHANGED <<script, now, output, earlier_output, exit_status>>

RunCheckTestExecution ==
    /\ script = "check_coverage"
    /\ pc = "extracted"
    /\ \E m \in 0..MaxCoverageLines :
        \E n \in 0..(MaxCoverageLines - m) :
          \E sl \in [1..m -> CoverageLogLines], al \in [1..n -> CoverageLogLines] :
            \E sl_exists \in {b \in BOOLEAN : b \/ m = 0},
               al_exists \in {b \in BOOLEAN : b \/ n = 0} :
              CheckTestExecution(IF sl_exists THEN File(sl) ELSE Missing,
                                 IF al_exists THEN File(al) ELSE Missing)

\* main(), second part, in a project whose fifo_async.log is missing and
\* whose fifo_sync.log is a longer log
RunCheckTestExecutionSyncOnly ==
    /\ script = "check_coverage"
    /\ pc = "extracted"
    /\ \E m \in 0..MaxResultLines :
          \E sl \in [1..m -> CoverageLogLines] :
            \E sl_exists \in {b \in BOOLEAN : b \/ m = 0} :
              CheckTestExecution(IF sl_exists THEN File(sl) ELSE Missing, Missing)

\* check_test_execution applied once more to the scenarios, against the same
\* or another fifo_sync.log (fifo_async.log is missing, so the asynchronous
\* scenarios are returned as they are)
RecheckTestExecution ==
    /\ script = "check_coverage"
    /\ pc \in {"extracted", "checked"}
    /\ \E m \in 0..MaxRecheckLines :
          \E sl \in [1..m -> CoverageLogLines] :
            \E sl_exists \in {b \in BOOLEAN : b \/ m = 0} :
              CheckTestExecution(IF sl_exists THEN File(sl) ELSE Missing, Missing)

\* main(), last part: the report is generated, printed and saved
RunGenerateCoverageReport ==
    /\ script = "check_coverage"
    /\ pc = "checked"
    /\ pc' = "done"
    /\ output' = generate_coverage_report(sync_data, async_data)
    /\ UNCHANGED <<script, files, now, sync_data, async_data, earlier_output,
                 exit_status>>

---------------------------------------------------------------------------
(* Synthesis reports.  A line is one of:                                   *)
(*   "marker"   contains 'Printing statistics'                             *)
(*   "blank"    empty or white space                                       *)
(*   "sep"      contains '===' or '---'                                    *)
(*   "cell"     indented <name> <a>, <name> of word characters             *)
(*   "dcell"    indented $_<name> <a>  (a Yosys gate-level cell)           *)
(*   "wires"    Number of wires: <a>                                       *)
(*   "memories" Number of memories: <a>                                    *)
(*   "ncells"   Number of cells: <a>                                       *)

\* sorted(items, key=count, reverse=True): stable, largest count first
RECURSIVE InsertByCount(_, _)
InsertByCount(sorted, item) ==
    IF sorted = <<>> THEN <<item>>
    ELSE IF Head(sorted).val >= item.val
    THEN <<Head(sorted)>> \o InsertByCount(Tail(sorted), item)
    ELSE <<item>> \o sorted

RECURSIVE SortByCount(_)
SortByCount(items) ==
    IF items = <<>> THEN <<>>
    ELSE InsertByCount(SortByCount(SubSeq(items, 1, Len(items) - 1)), items[Len(items)])

\* the first n items of a list (items[:n])
FirstN(items, n) == SubSeq(items, 1, IF Len(items) < n THEN Len(items) ELSE n)

---------------------------------------------------------------------------
(* analyze_synthesis.py                                                    *)

\* parse_yosys_report's `return None`
NoResults == [none |-> TRUE, cells |-> <<>>, wires |-> 0, memories |-> 0, processes |-> 0]

\* the results dict before the loop
EmptyResults == [none |-> FALSE, cells |-> <<>>, wires |-> 0, memories |-> 0, processes |-> 0]

\* the two trailing `if` blocks of the loop body (wire and memory counts)
WithCounts(results, l) ==
    [results EXCEPT !.wires = IF l.k = "wires" THEN l.a ELSE @,
                    !.memories = IF l.k = "memories" THEN l.a ELSE @]

\* a cell line recorded wherever it is, inside the statistics section or not
WithCell_anywhere(results, in_stat_section, l) ==
    IF l.k = "cell"
    THEN [results EXCEPT !.cells = DictPut(@, l.name, l.a)]
    ELSE results

\* the `if in_stat_section:` block for a line that is neither blank nor a
\* separator: a cell line is recorded
WithCell(results, in_stat_section, l) ==
    IF in_stat_section /\ l.k = "cell"
    THEN [results EXCEPT !.cells = DictPut(@, l.name, l.a)]
    ELSE results

\* the loop `for line in content.split('\n'):`
RECURSIVE ParseYosysLines(_, _, _)
ParseYosysLines(ls, in_stat_section, results) ==
    IF ls = <<>> THEN results
    ELSE IF Head(ls).k = "marker" THEN ParseYosysLines(Tail(ls), TRUE, results)
    ELSE IF in_stat_section /\ Head(ls).k = "blank"
    THEN ParseYosysLines(Tail(ls), in_stat_section, results)
    ELSE IF in_stat_section /\ Head(ls).k = "sep" THEN results
    ELSE ParseYosysLines(Tail(ls), in_stat_section,
             WithCounts(WithCell(results, in_stat_section, Head(ls)), Head(ls)))

\* parse_yosys_report
parse_yosys_report(report_file) ==
    IF ~report_file.exists THEN NoResults
    ELSE ParseYosysLines(report_file.lines, FALSE, EmptyResults)

\* the resources dict before the loop
ZeroResources ==
    [logic_cells |-> 0, flip_flops |-> 0, muxes |-> 0, memory_bits |-> 0, total_cells |-> 0]

\* the substrings of the three classification tests
FlipFlopMarks == <<<<"D","F","F">>, <<"F","F">>>>

MuxMarks == <<<<"M","U","X">>>>

LogicMarks ==
    <<<<"L","U","T">>, <<"A","N","D">>, <<"O","R">>, <<"X","O","R">>, <<"N","O","T">>,
      <<"N","A","N","D">>, <<"N","O","R">>>>

\* any(x in cell_type for x in marks)
HasAny(cell_type, marks) == \E i \in 1..Len(marks) : Contains(cell_type, marks[i])

\* the loop body with the three tests chained by elif
AddCell_exclusive(resources, cell_type, count) ==
    LET ff == HasAny(cell_type, FlipFlopMarks)
        mux == ~ff /\ HasAny(cell_type, MuxMarks)
        logic == ~ff /\ ~mux /\ HasAny(cell_type, LogicMarks)
    IN  [resources EXCEPT
            !.total_cells = @ + count,
            !.flip_flops = IF ff THEN @ + count ELSE @,
            !.muxes = IF mux THEN @ + count ELSE @,
            !.logic_cells = IF logic THEN @ + count ELSE @]

\* the body of `for cell_type, count in results['cells'].items():`
AddCell(resources, cell_type, count) ==
    [resources EXCEPT
        !.total_cells = @ + count,
        !.flip_flops = IF HasAny(cell_type, FlipFlopMarks) THEN @ + count ELSE @,
        !.muxes = IF HasAny(cell_type, MuxMarks) THEN @ + count ELSE @,
        !.logic_cells = IF HasAny(cell_type, LogicMarks) THEN @ + count ELSE @]

RECURSIVE CountCells(_, _)
CountCells(items, resources) ==
    IF items = <<>> THEN resources
    ELSE CountCells(Tail(items), AddCell(resources, Head(items).key, Head(items).val))

\* count_resources
count_resources(results) ==
    IF results.none THEN ZeroResources ELSE CountCells(results.cells, ZeroResources)

\* a printed line with the values it formats
Printed(k, s, name, a) == ReportLine(k, s, name, a, 0, 0)

CellLines(items) ==
    [i \in 1..Len(items) |-> Printed("cell", "", items[i].key, items[i].val)]

\* print_report
print_report(design_name, results, resources) ==
    <<Rule("="), Printed("synthesis_report", design_name, <<>>, 0), Rule("=")>>
    \o IF results.none THEN <<Text("ERROR: No synthesis results found!")>>
       ELSE <<Text("Resource Utilization:"),
              Printed("total_cells", "", <<>>, resources.total_cells),
              Printed("flip_flops", "", <<>>, resources.flip_flops),
              Printed("logic_cells", "", <<>>, resources.logic_cells),
              Printed("muxes", "", <<>>, resources.muxes),
              Printed("wires", "", <<>>, results.wires),
              Printed("memories", "", <<>>, results.memories),
              Text("Cell Breakdown:")>>
            \o CellLines(FirstN(SortByCount(results.cells), 15))
            \o (IF Len(results.cells) > 15
                THEN <<Printed("more_cell_types", "", <<>>, Len(results.cells) - 15)>>
                ELSE <<>>)
            \o <<Rule("=")>>

\* diff_pct with the subtraction reversed
PercentDifference_reversed(other, baseline) ==
    IF baseline > 0 THEN Ratio((baseline - other) * 100, baseline) ELSE Ratio(0, 1)

\* diff_pct = (diff / sync_val * 100) if sync_val > 0 else 0, with
\* diff = async_val - sync_val
PercentDifference(other, baseline) ==
    IF baseline > 0 THEN Ratio((other - baseline) * 100, baseline) ELSE Ratio(0, 1)

\* one row of a comparison table
ComparisonRow(key, sync_val, async_val) ==
    [k |-> "row", s |-> key, name |-> <<>>, a |-> sync_val, b |-> async_val,
     c |-> async_val - sync_val, pct |-> PercentDifference(async_val, sync_val)]

\* the resource classes compared, in order
ComparedKeys == <<"total_cells", "flip_flops", "logic_cells", "muxes">>

\* the comparison block of main()
ResourceComparison(sync_res, async_res) ==
    <<Rule("="), Text("COMPARISON: Sync vs Async FIFO"), Rule("="),
      Text("Resource Sync Async Difference"), Rule("-")>>
    \o [i \in 1..Len(ComparedKeys) |->
          ComparisonRow(ComparedKeys[i], sync_res[ComparedKeys[i]],
                        async_res[ComparedKeys[i]])]
    \o <<Rule("="),
         Text("Async FIFO Overhead: Clock domain crossing logic (Gray counters,"),
         Text("synchronizers) increases resource usage compared to Sync FIFO."),
         Rule("=")>>

\* what main() keeps of one design: nothing is parsed for a missing report
DesignData(report) ==
    IF report.exists
    THEN [results |-> parse_yosys_report(report),
          resources |-> count_resources(parse_yosys_report(report))]
    ELSE [results |-> NoResults, resources |-> ZeroResources]

\* one `if report.exists(): ... else: ...` block of main()
DesignSection(design_name, target, report, data) ==
    IF report.exists
    THEN print_report(design_name, data.results, data.resources)
    ELSE <<Printed("warning_not_found", design_name, <<>>, 0),
           Printed("run_make", target, <<>>, 0)>>

\* main() of analyze_synthesis.py, once the two designs are parsed
SynthesisAnalyzed(sync_report, async_report, sync, async) ==
    /\ script' = "analyze_synthesis"
    /\ pc' = "done"
    /\ files' = [NoFiles EXCEPT !.sync_report = sync_report,
                                !.async_report = async_report]
    /\ now' = ""
    /\ sync_data' = sync
    /\ async_data' = async
    /\ output' = <<Rule("="), Text("FPGA SYNTHESIS ANALYSIS"), Rule("=")>>
                 \o DesignSection("Synchronous FIFO", "synth_sync", sync_report, sync)
                 \o DesignSection("Asynchronous FIFO", "synth_async", async_report, async)
                 \o (IF sync_report.exists /\ async_report.exists
                     THEN ResourceComparison(sync.resources, async.resources)
                     ELSE <<>>)
    /\ exit_status' = NoExc

\* main() of analyze_synthesis.py
AnalyzeSynthesis(sync_report, async_report) ==
    SynthesisAnalyzed(sync_report, async_report,
                      DesignData(sync_report), DesignData(async_report))

\* the report lines an analyze_synthesis run is given
SynthesisReportLines ==
    {LogLine("marker", <<>>, "", 0, 0), LogLine("sep", <<>>, "", 0, 0),
     LogLine("blank", <<>>, "", 0, 0), NumLine("wires", 7), NumLine("memories", 4),
     LogLine("cell", <<"X","O","R","F","F">>, "", 5, 0),
     LogLine("cell", <<"X","O","R","F","F">>, "", 2, 0),
     LogLine("cell", <<"D","F","F">>, "", 2, 0),
     LogLine("cell", <<"M","U","X">>, "", 1, 0),
     LogLine("cell", <<"B","U","F">>, "", 3, 0)}

RunAnalyzeSynthesis ==
    /\ script = "none"
    /\ earlier_output' = earlier_output
    /\ \E k \in 0..MaxReportLines :
        \E j \in 0..(MaxReportLines - k) :
          \E s \in [1..k -> SynthesisReportLines], a \in [1..j -> SynthesisReportLines] :
            \E sync_exists \in {b \in BOOLEAN : b \/ k = 0},
               async_exists \in {b \in BOOLEAN : b \/ j = 0} :
              AnalyzeSynthesis(IF sync_exists THEN File(s) ELSE Missing,
                               IF async_exists THEN File(a) ELSE Missing)

---------------------------------------------------------------------------
(* synthesis_summary.py                                                    *)

\* the loop body of parse_report
SummaryLineParsed(data, l) ==
    [data EXCEPT
        !.total_cells = IF l.k = "ncells" THEN l.a ELSE @,
        !.wires = IF l.k = "wires" THEN l.a ELSE @,
        !.cells = IF l.k = "dcell" THEN DictPut(@, l.name, l.a) ELSE @]

RECURSIVE ParseReportLines(_, _)
ParseReportLines(ls, data) ==
    IF ls = <<>> THEN data
    ELSE ParseReportLines(Tail(ls), SummaryLineParsed(data, Head(ls)))

\* parse_report: open() raises for a missing file
parse_report(report_file) ==
    IF ~report_file.exists
    THEN [exc |-> Raised("FileNotFoundError", 11),
          data |-> [total_cells |-> 0, cells |-> <<>>, wires |-> 0]]
    ELSE [exc |-> NoExc,
          data |-> ParseReportLines(report_file.lines,
                                    [total_cells |-> 0, cells |-> <<>>, wires |-> 0])]

\* count_ffs
RECURSIVE count_ffs(_)
count_ffs(cells) ==
    IF cells = <<>> THEN 0
    ELSE (IF HasAny(Head(cells).key, FlipFlopMarks) THEN Head(cells).val ELSE 0)
         + count_ffs(Tail(cells))

\* logic_types of count_logic
LogicTypes ==
    <<<<"A","N","D">>, <<"O","R">>, <<"X","O","R">>, <<"N","A","N","D">>,
      <<"N","O","R">>, <<"X","N","O","R">>, <<"N","O","T">>>>

\* count_logic
RECURSIVE count_logic(_)
count_logic(cells) ==
    IF cells = <<>> THEN 0
    ELSE (IF HasAny(Head(cells).key, LogicTypes) THEN Head(cells).val ELSE 0)
         + count_logic(Tail(cells))

\* count_mux
count_mux(cells) == IF DictHas(cells, <<"$","_","M","U","X","_">>) THEN DictGet(cells, <<"$","_","M","U","X","_">>) ELSE 0

\* print_row
print_row(name, sync_val, async_val) == ComparisonRow(name, sync_val, async_val)

\* a printed line holding x / total * 100: the division raises for total = 0
Share(k, x, total, ln) ==
    IF total = 0 THEN Failed("ZeroDivisionError", ln)
    ELSE Piece(<<[k |-> k, s |-> "", name |-> <<>>, a |-> x, b |-> total, c |-> 0,
                  pct |-> Ratio(x * 100, total)]>>)

\* the "SYNCHRONOUS FIFO:" / "ASYNCHRONOUS FIFO:" paragraph; ln is the source
\* line of its first division
Breakdown(heading, data, ff, mux, logic, ln) ==
    Then(Piece(<<Text(heading), Printed("total_resources", "", <<>>, data.total_cells)>>),
    Then(Share("ff_share", ff, data.total_cells, ln),
    Then(Share("mux_share", mux, data.total_cells, ln + 1),
    Then(Share("logic_share", logic, data.total_cells, ln + 2),
         Piece(<<Blank, Text("  Top Cell Types:")>>
               \o CellLines(FirstN(SortByCount(data.cells), 8))
               \o <<Rule("-")>>)))))

\* the module body after the two parse_report calls
SummaryBody(sync, async, sync_ff, sync_logic, sync_mux, async_ff, async_logic, async_mux) ==
    Then(Piece(<<Text("Resource Sync FIFO Async FIFO Difference"), Rule("-"),
                 print_row("Total Cells", sync.total_cells, async.total_cells),
                 print_row("Flip-Flops (Registers)", sync_ff, async_ff),
                 print_row("Logic Gates", sync_logic, async_logic),
                 print_row("Multiplexers", sync_mux, async_mux),
                 print_row("Wires", sync.wires, async.wires),
                 Rule("-"), Text("DETAILED BREAKDOWN:")>>),
    Then(Breakdown("SYNCHRONOUS FIFO:", sync, sync_ff, sync_mux, sync_logic, 97),
    Then(Breakdown("ASYNCHRONOUS FIFO:", async, async_ff, async_mux, async_logic, 113),
    Then(Piece(<<Rule("="), Text("KEY INSIGHTS:"), Rule("-")>>),
    Then(Share("overhead_pct", async.total_cells - sync.total_cells, sync.total_cells, 127),
         Piece(<<Printed("additional_ffs", "", <<>>, async_ff - sync_ff),
                 ReportLine("main_resources", "Sync", <<>>, sync_ff, sync_logic, sync_mux),
                 ReportLine("main_resources", "Async", <<>>, async_ff, async_logic, async_mux),
                 Text("3. FIFO Memory Implementation:"), Rule("=")>>))))))

\* the module body: the banner, the two parse_report calls, the rest
SummaryScript(sync_parsed, async_parsed) ==
    Then(Piece(<<Rule("="), Text("FPGA SYNTHESIS RESULTS"), Rule("=")>>),
    Then([exc |-> sync_parsed.exc, lines |-> <<>>],
    Then([exc |-> async_parsed.exc, lines |-> <<>>],
         SummaryBody(sync_parsed.data, async_parsed.data,
                     count_ffs(sync_parsed.data.cells), count_logic(sync_parsed.data.cells),
                     count_mux(sync_parsed.data.cells),
                     count_ffs(async_parsed.data.cells), count_logic(async_parsed.data.cells),
                     count_mux(async_parsed.data.cells)))))

\* the process, once the script has run to its end or to an exception
SummaryRan(sync_report, async_report, sync_parsed, async_parsed, ran) ==
    /\ script' = "synthesis_summary"
    /\ pc' = "done"
    /\ files' = [NoFiles EXCEPT !.sync_report = sync_report,
                                !.async_report = async_report]
    /\ now' = ""
    /\ sync_data' = sync_parsed
    /\ async_data' = async_parsed
    /\ output' = ran.lines
    /\ exit_status' = ran.exc

\* synthesis_summary.py run as a script
SynthesisSummary(sync_report, async_report) ==
    SummaryRan(sync_report, async_report, parse_report(sync_report),
               parse_report(async_report),
               SummaryScript(parse_report(sync_report), parse_report(async_report)))

\* the report lines a synthesis_summary run is given
SummaryReportLines ==
    {NumLine("ncells", 6), NumLine("wires", 7),
     LogLine("dcell", <<"$","_","D","F","F","_","P","_">>, "", 2, 0),
     LogLine("dcell", <<"$","_","M","U","X","_">>, "", 1, 0),
     LogLine("dcell", <<"$","_","X","O","R","_">>, "", 3, 0)}

RunSynthesisSummary ==
    /\ script = "none"
    /\ earlier_output' = earlier_output
    /\ \E k \in 0..MaxSummaryLines :
        \E j \in 0..(MaxSummaryLines - k) :
          \E s \in [1..k -> SummaryReportLines], a \in [1..j -> SummaryReportLines] :
            \E sync_exists \in {b \in BOOLEAN : b \/ k = 0},
               async_exists \in {b \in BOOLEAN : b \/ j = 0} :
              SynthesisSummary(IF sync_exists THEN File(s) ELSE Missing,
                               IF async_exists THEN File(a) ELSE Missing)

---------------------------------------------------------------------------
(* The processes.                                                          *)

Init ==
    /\ script = "none"
    /\ pc = "start"
    /\ files = NoFiles
    /\ now = ""
    /\ sync_data = <<>>
    /\ async_data = <<>>
    /\ output = <<>>
    /\ earlier_output = <<>>
    /\ exit_status = NoExc

Next ==
    \/ RunAnalyzePerformance
    \/ RerunAnalyzePerformance
    \/ RunPlotResults
    \/ RunExtractTests
    \/ RunCheckTestExecution
    \/ RunGenerateCoverageReport
    \/ RunAnalyzeSynthesis
    \/ RunSynthesisSummary

Spec == Init /\ [][Next]_vars

\* check_test_execution as a function applied any number of times to the
\* scenarios of extract_tests_from_testbench, and the report of the result
NextRecheck ==
    \/ RunExtractTests
    \/ RecheckTestExecution
    \/ RunGenerateCoverageReport

SpecRecheck == Init /\ [][NextRecheck]_vars

\* check_coverage.py, up to the matching, in a project with a longer
\* fifo_sync.log and no fifo_async.log
NextSyncOnly ==
    \/ RunExtractTests
    \/ RunCheckTestExecutionSyncOnly

SpecSyncOnly == Init /\ [][NextSyncOnly]_vars

---------------------------------------------------------------------------
(* Properties of analyze_performance.py and plot_results.py.               *)

StatusTexts ==
    {"OVERALL STATUS: NO SIMULATION DATA FOUND", "OVERALL STATUS: ALL TESTS PASSED",
     "OVERALL STATUS: SOME TESTS FAILED"}

\* the overall status lines of a report
StatusLinesOf(report) == SelectSeq(report, LAMBDA l : l.k = "text" /\ l.s \in StatusTexts)

AllPassed(tests) == \A i \in 1..Len(tests) : tests[i].passed

\* the status the claim assigns to two test sequences
ClaimedStatus(A, B) ==
    IF Len(A) = 0 /\ Len(B) = 0 THEN "OVERALL STATUS: NO SIMULATION DATA FOUND"
    ELSE IF Len(A) > 0 /\ Len(B) > 0 /\ AllPassed(A) /\ AllPassed(B)
    THEN "OVERALL STATUS: ALL TESTS PASSED"
    ELSE "OVERALL STATUS: SOME TESTS FAILED"

\* C1: for any two parsed datasets, generate_report emits exactly one overall
\* status line: NO SIMULATION DATA FOUND iff both have zero tests, ALL TESTS
\* PASSED iff both have a test and every test passed, SOME TESTS FAILED in
\* every other case.
C1_ExactlyOneStatusLine ==
    script = "analyze_performance" =>
        /\ Len(StatusLinesOf(output)) = 1
        /\ StatusLinesOf(output)[1].s = ClaimedStatus(sync_data.tests, async_data.tests)

\* what the code does for C1: every report that generate_report returns has
\* exactly one status line, the claimed one (a report is returned unless the
\* occupancy line of C3 raises)
StatusOfReturnedReports ==
    (script = "analyze_performance" /\ exit_status.exc = "") =>
        /\ Len(StatusLinesOf(output)) = 1
        /\ StatusLinesOf(output)[1].s = ClaimedStatus(sync_data.tests, async_data.tests)

\* plot_results.py got as far as parsing the logs
PlotParsed == script = "plot_results" /\ ~(exit_status.exc = "" /\ exit_status.code = 1)

\* the parse of analyze_performance.py returned empty tests and the defaults
PerfDefaults(parsed) ==
    /\ parsed.exc.exc = ""
    /\ parsed.tests = <<>>
    /\ parsed.metrics.total_writes = 0
    /\ parsed.metrics.total_reads = 0
    /\ parsed.metrics.peak_occupancy = 0
    /\ parsed.metrics.fifo_depth = 16
    /\ parsed.metrics.throughput_mbps = 0
    /\ parsed.metrics.success_rate = 0

\* the parse of plot_results.py returned the defaults
PlotDefaults(parsed) ==
    /\ parsed.exc.exc = ""
    /\ parsed.metrics.total_writes = 0
    /\ parsed.metrics.total_reads = 0
    /\ parsed.metrics.peak_occupancy = 0
    /\ parsed.metrics.fifo_depth = 16
    /\ parsed.metrics.throughput = 0
    /\ parsed.metrics.tests_passed = 0
    /\ parsed.metrics.tests_failed = 0

\* C2: parsing a log file that does not exist returns an empty test sequence
\* and metrics with every field at its default (fifo_depth 16, the rest 0),
\* and raises nothing, in parse_sync_log and in parse_metrics.
C2_MissingLogGivesDefaults ==
    /\ script = "analyze_performance" =>
          /\ ~files.sync_log.exists => PerfDefaults(sync_data)
          /\ ~files.async_log.exists => PerfDefaults(async_data)
    /\ PlotParsed =>
          /\ ~files.sync_log.exists => PlotDefaults(sync_data)
          /\ ~files.async_log.exists => PlotDefaults(async_data)

\* C2's case: a run whose synchronous log is missing while the asynchronous
\* log has results
C2_Witness ==
    /\ script = "analyze_performance"
    /\ ~files.sync_log.exists
    /\ files.async_log.exists
    /\ Len(async_data.tests) > 0
    /\ sync_data.tests = <<>>

\* p is floor(n * 100 / d), d > 0
IsFloorPercent(p, n, d) == p * d <= n * 100 /\ n * 100 < (p + 1) * d

\* C3: the occupancy percentage rendered in the report is
\* floor(peak_occupancy * 100 / fifo_depth) for every parsed metrics value, and
\* is 0, without an exception, when fifo_depth is 0.
C3_OccupancyPercent ==
    script = "analyze_performance" =>
        /\ exit_status.exc = ""
        /\ \A i \in 1..Len(output) :
              output[i].k = "peak_occupancy" =>
                  IF output[i].b = 0 THEN output[i].c = 0
                  ELSE IsFloorPercent(output[i].c, output[i].a, output[i].b)
        /\ sync_data.metrics.total_writes > 0 =>
              \E i \in 1..Len(output) :
                  /\ output[i].k = "peak_occupancy"
                  /\ output[i].a = sync_data.metrics.peak_occupancy
                  /\ output[i].b = sync_data.metrics.fifo_depth

\* what the code does for C3: with a non-zero fifo_depth the rendered
\* percentage is the floor (12/16 gives 75)
OccupancyOfReturnedReports ==
    script = "analyze_performance" =>
        \A i \in 1..Len(output) :
            output[i].k = "peak_occupancy" =>
                /\ output[i].b > 0
                /\ IsFloorPercent(output[i].c, output[i].a, output[i].b)
                /\ (output[i].a = 12 /\ output[i].b = 16) => output[i].c = 75

PercentKinds == {"summary", "coverage", "overall_coverage", "pass_rate"}

\* C4: every pass-rate and coverage percentage is floor(count * 100 / total),
\* and is 0 or not computed when total is 0 (2 of 3 gives 66, not 67); the
\* computation raises for no test sequence.  A "Summary:" line is rendered
\* exactly for the datasets that have tests.
C4_FloorPercentages ==
    /\ script \in {"analyze_performance", "check_coverage"} =>
          \A i \in 1..Len(output) :
              output[i].k \in PercentKinds =>
                  /\ output[i].b = 0 => output[i].c = 0
                  /\ output[i].b > 0 =>
                        IsFloorPercent(output[i].c, output[i].a, output[i].b)
                  /\ (output[i].a = 2 /\ output[i].b = 3) => output[i].c = 66
    /\ script = "analyze_performance" =>
          /\ exit_status.line \notin {135, 163}
          /\ \A i \in 1..Len(output) : output[i].k = "summary" => output[i].b > 0
          /\ exit_status.exc = "" =>
                Len(SelectSeq(output, LAMBDA l : l.k = "summary"))
                  = (IF sync_data.tests = <<>> THEN 0 ELSE 1)
                    + (IF async_data.tests = <<>> THEN 0 ELSE 1)
    /\ script = "check_coverage" =>
          /\ exit_status.exc = ""
          /\ pc = "done" =>
                Len(SelectSeq(output, LAMBDA l : l.k \in PercentKinds)) = 4

\* C4's case: a report whose summary is 2 passed of 3, rendered as 66
C4_Witness ==
    /\ script = "analyze_performance"
    /\ \E i \in 1..Len(output) :
          output[i].k = "summary" /\ output[i].a = 2 /\ output[i].b = 3
          /\ output[i].c = 66

---------------------------------------------------------------------------
(* Properties of analyze_synthesis.py and synthesis_summary.py.            *)

RowsOf(out) == SelectSeq(out, LAMBDA l : l.k = "row")

\* C5: in the resource comparison, for each of total_cells, flip_flops,
\* logic_cells and muxes the difference is other minus baseline and the
\* percentage is (other - baseline) / baseline * 100, and exactly 0 when the
\* baseline is 0.
C5_PercentDifference ==
    /\ script \in {"analyze_synthesis", "synthesis_summary"} =>
          \A i \in 1..Len(RowsOf(output)) :
              LET row == RowsOf(output)[i]
              IN  /\ row.c = row.b - row.a
                  /\ row.pct.den > 0
                  /\ row.a = 0 => row.pct.num = 0
                  /\ row.a > 0 =>
                        row.pct.num * row.a = (row.b - row.a) * 100 * row.pct.den
    /\ (script = "analyze_synthesis" /\ files.sync_report.exists
        /\ files.async_report.exists) =>
          /\ Len(RowsOf(output)) = 4
          /\ \A i \in 1..4 :
                LET row == RowsOf(output)[i]
                    key == <<"total_cells", "flip_flops", "logic_cells", "muxes">>[i]
                IN  /\ row.s = key
                    /\ row.a = sync_data.resources[key]
                    /\ row.b = async_data.resources[key]

\* C5's case: a comparison whose baseline has no cells and whose other
\* design has 5
C5_Witness ==
    /\ script = "analyze_synthesis"
    /\ \E i \in 1..Len(RowsOf(output)) :
          LET row == RowsOf(output)[i]
          IN  row.s = "total_cells" /\ row.a = 0 /\ row.b = 5 /\ row.c = 5
              /\ row.pct.num = 0

\* the count recorded for a cell type, 0 if none
CellCount(cells, cell_type) == IF DictHas(cells, cell_type) THEN DictGet(cells, cell_type) ELSE 0

\* the counts the claim's rules give for the cell types of the reports:
\* <<"X","O","R","F","F">> is a flip-flop and a logic cell, DFF a flip-flop, MUX a multiplexer,
\* BUF none of them
ClaimedResources(cells) ==
    [total_cells |-> CellCount(cells, <<"X","O","R","F","F">>) + CellCount(cells, <<"D","F","F">>)
                     + CellCount(cells, <<"M","U","X">>) + CellCount(cells, <<"B","U","F">>),
     flip_flops  |-> CellCount(cells, <<"X","O","R","F","F">>) + CellCount(cells, <<"D","F","F">>),
     muxes       |-> CellCount(cells, <<"M","U","X">>),
     logic_cells |-> CellCount(cells, <<"X","O","R","F","F">>),
     memory_bits |-> 0]

\* C6: count_resources adds each cell type's count to total_cells and to
\* every class whose substring rule its name satisfies; the classes are not
\* exclusive, <<"X","O","R","F","F">> counts as flip-flop and as logic cell.
C6_CountResources ==
    script = "analyze_synthesis" =>
        /\ files.sync_report.exists =>
              sync_data.resources = ClaimedResources(sync_data.results.cells)
        /\ files.async_report.exists =>
              async_data.resources = ClaimedResources(async_data.results.cells)

\* C6's case: <<"X","O","R","F","F">> is counted twice, and the classes add up to more than
\* total_cells
C6_Witness ==
    /\ script = "analyze_synthesis"
    /\ files.sync_report.exists
    /\ DictHas(sync_data.results.cells, <<"X","O","R","F","F">>)
    /\ DictHas(sync_data.results.cells, <<"M","U","X">>)
    /\ sync_data.resources.flip_flops + sync_data.resources.muxes
         + sync_data.resources.logic_cells > sync_data.resources.total_cells

SharePercentKinds == {"ff_share", "mux_share", "logic_share", "overhead_pct"}

\* C9: every derived percentage of the synthesis summary (the shares of total
\* cells, the overhead, the rows' differences) is 0 when its denominator is 0
\* and nothing raises, for any parsed report, also one with total_cells = 0.
C9_SummaryPercentagesGuarded ==
    (script = "synthesis_summary" /\ files.sync_report.exists
     /\ files.async_report.exists) =>
        /\ exit_status.exc = ""
        /\ \A i \in 1..Len(output) :
              (output[i].k \in SharePercentKinds /\ output[i].b = 0) =>
                  output[i].pct.num = 0
        /\ \A i \in 1..Len(RowsOf(output)) :
              RowsOf(output)[i].a = 0 => RowsOf(output)[i].pct.num = 0
        /\ Len(SelectSeq(output, LAMBDA l : l.k \in SharePercentKinds)) = 7

\* C10: a missing synthesis report is not fatal in any synthesis script: the
\* run ends without an uncaught exception, the missing design's structure is
\* empty and its resource counts are 0, and analyze_synthesis warns.
C10_MissingReportNotFatal ==
    /\ (script = "analyze_synthesis"
        /\ (~files.sync_report.exists \/ ~files.async_report.exists)) =>
          /\ exit_status.exc = "" /\ exit_status.code = 0
          /\ ~files.sync_report.exists =>
                /\ sync_data.resources = ZeroResources
                /\ \E i \in 1..Len(output) :
                      output[i].k = "warning_not_found" /\ output[i].s = "Synchronous FIFO"
          /\ ~files.async_report.exists =>
                /\ async_data.resources = ZeroResources
                /\ \E i \in 1..Len(output) :
                      output[i].k = "warning_not_found" /\ output[i].s = "Asynchronous FIFO"
    /\ (script = "synthesis_summary"
        /\ (~files.sync_report.exists \/ ~files.async_report.exists)) =>
          /\ exit_status.exc = "" /\ exit_status.code = 0
          /\ ~files.sync_report.exists =>
                sync_data.data = [total_cells |-> 0, cells |-> <<>>, wires |-> 0]
          /\ ~files.async_report.exists =>
                async_data.data = [total_cells |-> 0, cells |-> <<>>, wires |-> 0]

\* what the code does for C10 in analyze_synthesis.py: the run completes,
\* warns, and the missing design has no counts
MissingReportInAnalyzeSynthesis ==
    script = "analyze_synthesis" =>
        /\ exit_status.exc = "" /\ exit_status.code = 0
        /\ ~files.sync_report.exists =>
              /\ sync_data.resources = ZeroResources
              /\ \E i \in 1..Len(output) : output[i].k = "warning_not_found"
        /\ RowsOf(output) # <<>> =>
              files.sync_report.exists /\ files.async_report.exists

---------------------------------------------------------------------------
(* Properties of check_coverage.py.                                        *)

\* the scenarios have been matched against the logs
Matched == script = "check_coverage" /\ pc \in {"checked", "done"}

ResetBehaviorTask == LogLine("task", <<"t","e","s","t","_","r","e","s","e","t","_","b","e","h","a","v","i","o","r">>, "", 0, 0)

ResetBehaviorCheckPass == TestLine(<<"R","e","s","e","t"," ","B","e","h","a","v","i","o","r"," ","C","h","e","c","k">>, "PASS")

FullResetBehaviorFail == TestLine(<<"F","u","l","l"," ","R","e","s","e","t"," ","B","e","h","a","v","i","o","r">>, "FAIL")

\* the items of the execution results that the fallback rule accepts for a
\* scenario
FallbackHits(test, executed_tests) ==
    {i \in 1..Len(executed_tests) : FallbackMatches(test, executed_tests[i].key)}

\* a scenario with no exact match and several fallback matches is bound to
\* the first of them
BoundToFirst(log_file, tests) ==
    LET executed_tests == ExecutedTests(log_file.lines)
    IN  \A i \in 1..Len(tests) :
            LET hits == FallbackHits(tests[i], executed_tests)
            IN  (/\ log_file.exists
                 /\ ~DictHas(executed_tests, Lower(tests[i].description))
                 /\ Cardinality(hits) >= 2) =>
                    \E h \in hits :
                        /\ \A j \in hits : h <= j
                        /\ tests[i].executed
                        /\ tests[i].passed = executed_tests[h].val

ClaimedMatch(test, result_name) ==
    \/ Lower(test.description) = Lower(result_name)
    \/ Contains(Lower(result_name), Lower(NormalizedName(test.name)))
    \/ Contains(Lower(NormalizedName(test.name)), Lower(result_name))

ClaimedExecuted(log_file, tests) ==
    \A i \in 1..Len(tests) :
        /\ tests[i].executed <=>
              \E j \in 1..Len(log_file.lines) :
                  /\ log_file.lines[j].k = "test"
                  /\ ClaimedMatch(tests[i], Strip(log_file.lines[j].name))
        /\ ~tests[i].executed => ~tests[i].passed

\* C8: after matching, a scenario is executed iff some execution result
\* matches it by (1) description = result name, both case-folded, or (2) its
\* name without the test marker, separators as spaces, case-folded, is a
\* substring of the case-folded result name or the reverse; a scenario that
\* nothing matches keeps executed = false and passed = false.
C8_ExecutedIffMatched ==
    Matched =>
        /\ ClaimedExecuted(files.sync_log, sync_data)
        /\ ClaimedExecuted(files.async_log, async_data)

\* what the code does for C8: for a scenario whose name holds no upper-case
\* letter the two rules of the claim decide executed
ExecutedIffMatchedInLowerCase ==
    Matched =>
        \A i \in 1..Len(sync_data) :
            NormalizedName(sync_data[i].name) = Lower(NormalizedName(sync_data[i].name)) =>
                ClaimedExecuted(files.sync_log, <<sync_data[i]>>)

\* what the code does for C9: with cells in both reports nothing raises
SummaryOfNonEmptyReports ==
    (/\ script = "synthesis_summary"
     /\ files.sync_report.exists /\ files.async_report.exists
     /\ sync_data.data.total_cells > 0 /\ async_data.data.total_cells > 0) =>
        /\ exit_status.exc = ""
        /\ Len(SelectSeq(output, LAMBDA l : l.k \in SharePercentKinds)) = 7
        /\ \A i \in 1..Len(output) :
              output[i].k \in SharePercentKinds =>
                  output[i].pct.num * output[i].b = output[i].a * 100 * output[i].pct.den

---------------------------------------------------------------------------
(* Further properties of analyze_performance.py and plot_results.py.       *)

\* the log has a "Peak Occupancy: <p>/<d>" line
HasPeakLine(log_file) == \E i \in 1..Len(log_file.lines) : log_file.lines[i].k = "peak"

\* C11: every metrics value the log parsers return has
\* peak_occupancy <= fifo_depth whenever the log supplies both values in a
\* line "Peak Occupancy: <p>/<d>", whatever the integers p and d.
C11_PeakWithinDepth ==
    (script = "analyze_performance" \/ PlotParsed) =>
        /\ HasPeakLine(files.sync_log) =>
              sync_data.metrics.peak_occupancy <= sync_data.metrics.fifo_depth
        /\ HasPeakLine(files.async_log) =>
              async_data.metrics.peak_occupancy <= async_data.metrics.fifo_depth

\* what the code does for C11: the two integers of the first peak line are
\* stored as they are; without a peak line the defaults 0 and 16 stay
PeakStoredAsRead ==
    (script = "analyze_performance" \/ PlotParsed) =>
        IF HasPeakLine(files.sync_log)
        THEN LET first == FirstOf(files.sync_log.lines, "peak")[1]
             IN  /\ sync_data.metrics.peak_occupancy = first.a
                 /\ sync_data.metrics.fifo_depth = first.b
        ELSE /\ sync_data.metrics.peak_occupancy = 0
             /\ sync_data.metrics.fifo_depth = 16

\* C12: running the report pipeline twice on identical inputs gives
\* byte-identical report text; the report depends on the two parsed datasets
\* and on nothing else (no clock, no state of an earlier run).
C12_RerunGivesSameReport ==
    (script = "analyze_performance" /\ pc = "rerun") => output = earlier_output

\* the lines of a report but its "Generated:" line
WithoutTimestamp(report) == SelectSeq(report, LAMBDA l : l.k # "generated")

\* what the code does for C12: the two reports agree but for the
\* "Generated:" line, which holds the time the run read from the clock
RerunDiffersInTimestampOnly ==
    (script = "analyze_performance" /\ pc = "rerun") =>
        /\ WithoutTimestamp(output) = WithoutTimestamp(earlier_output)
        /\ Len(output) = Len(earlier_output)
        /\ \A i \in 1..Len(output) : output[i].k = "generated" => output[i].s = now

\* the position of a heading in a report
IndexOfText(report, s) ==
    CHOOSE i \in 1..Len(report) : report[i].k = "text" /\ report[i].s = s

\* the lines of a report after one heading and before another
SectionBetween(report, from, to) ==
    SubSeq(report, IndexOfText(report, from) + 1, IndexOfText(report, to) - 1)

SyncSectionOf(report) ==
    SectionBetween(report, "SYNCHRONOUS FIFO RESULTS", "ASYNCHRONOUS FIFO RESULTS")

AsyncSectionOf(report) ==
    SectionBetween(report, "ASYNCHRONOUS FIFO RESULTS", "COMPARISON SUMMARY")

HasMetricsBlock(section) ==
    \E i \in 1..Len(section) :
        section[i].k = "text" /\ section[i].s = "Performance Metrics:"

MetricKinds == {"total_writes", "total_reads", "peak_occupancy", "throughput"}

\* which metrics lines a section holds, in order
BlockShape(section) ==
    LET block == SelectSeq(section, LAMBDA l : l.k \in MetricKinds)
    IN  [i \in 1..Len(block) |-> block[i].k]

AnyCounterNonZero(m) ==
    \/ m.total_writes > 0
    \/ m.total_reads > 0
    \/ m.peak_occupancy > 0
    \/ m.throughput_mbps > 0

\* C13: each dataset's section of the report holds the performance metrics
\* block whenever one of the dataset's counters (total_writes, total_reads,
\* peak_occupancy, throughput) is non-zero and omits it only when all are
\* zero; the dataset-B section has the shape of the dataset-A section, the
\* same lines for the same metrics values.
C13_MetricsBlockPresence ==
    (script = "analyze_performance" /\ exit_status.exc = "") =>
        /\ HasMetricsBlock(SyncSectionOf(output)) <=> AnyCounterNonZero(sync_data.metrics)
        /\ HasMetricsBlock(AsyncSectionOf(output)) <=> AnyCounterNonZero(async_data.metrics)
        /\ sync_data.metrics = async_data.metrics =>
              BlockShape(SyncSectionOf(output)) = BlockShape(AsyncSectionOf(output))

\* what the code does for C13: a block is rendered iff total_writes > 0; the
\* synchronous block has a "Peak Occupancy:" line and the asynchronous block
\* has none
MetricsBlockAsCoded ==
    (script = "analyze_performance" /\ exit_status.exc = "") =>
        /\ HasMetricsBlock(SyncSectionOf(output)) <=> sync_data.metrics.total_writes > 0
        /\ HasMetricsBlock(AsyncSectionOf(output)) <=> async_data.metrics.total_writes > 0
        /\ sync_data.metrics.total_writes > 0 =>
              BlockShape(SyncSectionOf(output)) =
                  <<"total_writes", "total_reads", "peak_occupancy">>
                  \o (IF sync_data.metrics.throughput_mbps > 0
                      THEN <<"throughput">> ELSE <<>>)
        /\ async_data.metrics.total_writes > 0 =>
              BlockShape(AsyncSectionOf(output)) =
                  <<"total_writes", "total_reads">>
                  \o (IF async_data.metrics.throughput_mbps > 0
                      THEN <<"throughput">> ELSE <<>>)

\* chart i was saved
Produced(i) ==
    \E j \in 1..Len(output) : output[j].k = "generated_chart" /\ output[j].s = Charts[i]

\* producing chart i fails by itself: its file cannot be saved, or it is the
\* occupancy chart and the synchronous fifo_depth is 0
FailsByItself(i) ==
    \/ Charts[i] = files.unwritable
    \/ Charts[i] = "occupancy.png" /\ sync_data.metrics.fifo_depth = 0

\* C14: the four charts are independently producible: if producing one of
\* them fails, each of the other three is still attempted and produced.
C14_ChartsIndependent ==
    PlotParsed => \A i \in 1..Len(Charts) : ~FailsByItself(i) => Produced(i)

\* what the code does for C14: the charts are drawn in sequence with no
\* handler, so a chart is produced iff neither it nor a chart before it fails
ChartsUpToFirstFailure ==
    PlotParsed =>
        /\ \A i \in 1..Len(Charts) :
              Produced(i) <=> \A j \in 1..i : ~FailsByItself(j)
        /\ exit_status.exc # "" <=> \E i \in 1..Len(Charts) : FailsByItself(i)

---------------------------------------------------------------------------
(* Further properties of check_coverage.py.                                *)

\* s without its leading prefix, later occurrences of the prefix kept
WithoutPrefix(s, prefix) ==
    IF StartsWith(s, prefix) THEN SubSeq(s, Len(prefix) + 1, Len(s)) ELSE s

\* the description the claim gives a test identifier
ClaimedDescription(task_name) ==
    Title(Replace(WithoutPrefix(task_name, TestMarker), Underscore, Space))

\* the scenarios the claim derives from a testbench
ClaimedScenarios(tb_file) ==
    LET m == SelectSeq(tb_file.lines, IsTestTask)
    IN  [i \in 1..Len(m) |->
            [name |-> m[i].name, category |-> "functional",
             description |-> ClaimedDescription(m[i].name),
             executed |-> FALSE, passed |-> FALSE]]

\* the scenarios are extracted and not yet matched
Extracted == script = "check_coverage" /\ pc = "extracted"

\* C15: for every declared test identifier the scenario's description is the
\* identifier with only its leading test marker removed, separators replaced
\* by spaces and each word title-cased; later occurrences of the marker text
\* inside the identifier (test_latest_value) are kept.  Scenarios come in
\* declaration order, each "functional", executed = false, passed = false.
C15_DescriptionDerivation ==
    Extracted =>
        /\ sync_data = ClaimedScenarios(files.sync_tb)
        /\ async_data = ClaimedScenarios(files.async_tb)

MarkerOnlyLeads(task_name) ==
    ~Contains(WithoutPrefix(task_name, TestMarker), TestMarker)

\* what the code does for C15: order, category and flags are the claimed
\* ones, and so is the description of an identifier that holds the marker
\* text at its start only; test_latest_value becomes "Lavalue"
DescriptionAsCoded ==
    Extracted =>
        /\ Len(sync_data) = Len(ClaimedScenarios(files.sync_tb))
        /\ \A i \in 1..Len(sync_data) :
              LET claimed == ClaimedScenarios(files.sync_tb)[i]
              IN  /\ sync_data[i].name = claimed.name
                  /\ sync_data[i].category = "functional"
                  /\ ~sync_data[i].executed /\ ~sync_data[i].passed
                  /\ MarkerOnlyLeads(claimed.name) =>
                        sync_data[i].description = claimed.description
                  /\ ~MarkerOnlyLeads(claimed.name) =>
                        /\ sync_data[i].description = <<"L","a","v","a","l","u","e">>
                        /\ claimed.description =
                              <<"L","a","t","e","s","t"," ","V","a","l","u","e">>

---------------------------------------------------------------------------
(* Further properties of analyze_synthesis.py.                             *)

\* the lines of kind k
LinesOf(ls, k) == SelectSeq(ls, LAMBDA l : l.k = k)

\* the count of the last line of kind k
LastCount(ls, k) == LinesOf(ls, k)[Len(LinesOf(ls, k))].a

\* the counts the claim reads from a report: those of its standalone lines,
\* wherever they are
CountsReadAnywhere(report, results) ==
    /\ LinesOf(report.lines, "wires") # <<>> =>
          results.wires = LastCount(report.lines, "wires")
    /\ LinesOf(report.lines, "memories") # <<>> =>
          results.memories = LastCount(report.lines, "memories")

\* C16: parse_yosys_report records the wires and memories counts from their
\* lines "Number of wires: <int>" and "Number of memories: <int>" wherever
\* the line is: before the statistics marker, inside the statistics section,
\* or after the section's separator line.
C16_CountsReadAnywhere ==
    script = "analyze_synthesis" =>
        /\ files.sync_report.exists =>
              CountsReadAnywhere(files.sync_report, sync_data.results)
        /\ files.async_report.exists =>
              CountsReadAnywhere(files.async_report, async_data.results)

\* the position of the first statistics marker, 0 if there is none
MarkerAt(ls) ==
    IF \E i \in 1..Len(ls) : ls[i].k = "marker"
    THEN CHOOSE i \in 1..Len(ls) :
             ls[i].k = "marker" /\ \A j \in 1..(i - 1) : ls[j].k # "marker"
    ELSE 0

\* the position of the separator that ends the statistics section,
\* Len(ls) + 1 if nothing ends it
SectionEnd(ls) ==
    LET ends == {i \in 1..Len(ls) : MarkerAt(ls) # 0 /\ i > MarkerAt(ls) /\ ls[i].k = "sep"}
    IN  IF ends = {} THEN Len(ls) + 1
        ELSE CHOOSE i \in ends : \A j \in ends : i <= j

\* what the code does for C16: the loop stops at the separator that ends the
\* statistics section, so the counts are those of the lines before it
CountsReadUpToSectionEnd ==
    script = "analyze_synthesis" /\ files.sync_report.exists =>
        LET read == SubSeq(files.sync_report.lines, 1,
                           SectionEnd(files.sync_report.lines) - 1)
        IN  /\ sync_data.results.wires =
                  IF LinesOf(read, "wires") # <<>> THEN LastCount(read, "wires") ELSE 0
            /\ sync_data.results.memories =
                  IF LinesOf(read, "memories") # <<>> THEN LastCount(read, "memories")
                  ELSE 0

\* the lines of the statistics section: after the first marker, before the
\* first separator after it
StatSection(ls) ==
    IF MarkerAt(ls) = 0 THEN <<>>
    ELSE SubSeq(ls, MarkerAt(ls) + 1, SectionEnd(ls) - 1)

\* the cells mapping holds exactly the cell lines of the section, each cell
\* type once, with the count of its last line in the section
CellsOfSection(report, results) ==
    LET section == LinesOf(StatSection(report.lines), "cell")
        cells == results.cells
    IN  /\ \A i, j \in 1..Len(cells) : cells[i].key = cells[j].key => i = j
        /\ \A i \in 1..Len(cells) :
              \E j \in 1..Len(section) :
                  /\ section[j].name = cells[i].key
                  /\ section[j].a = cells[i].val
                  /\ \A n \in (j + 1)..Len(section) : section[n].name # cells[i].key
        /\ \A j \in 1..Len(section) : DictHas(cells, section[j].name)

\* C17: parse_yosys_report records a cell-type -> count entry for exactly the
\* cell lines between the statistics marker and the first separator after
\* it: cell lines before the marker or after that separator never change
\* the mapping, blank lines in the section do not end it, and a cell type
\* repeated in the section keeps its last count (keys stay unique).
C17_CellsOnlyInSection ==
    script = "analyze_synthesis" =>
        /\ files.sync_report.exists =>
              CellsOfSection(files.sync_report, sync_data.results)
        /\ files.async_report.exists =>
              CellsOfSection(files.async_report, async_data.results)

\* C17's case: a cell line before the marker is not recorded while the cell
\* line of the section is
C17_Witness ==
    /\ script = "analyze_synthesis"
    /\ files.sync_report.exists
    /\ Len(files.sync_report.lines) = 3
    /\ files.sync_report.lines[1].k = "cell"
    /\ files.sync_report.lines[2].k = "marker"
    /\ files.sync_report.lines[3].k = "cell"
    /\ files.sync_report.lines[1].name # files.sync_report.lines[3].name
    /\ Len(sync_data.results.cells) = 1
    /\ sync_data.results.cells[1].key = files.sync_report.lines[3].name

\* further cases of C17: a blank line does not end the section and a
\* repeated cell type keeps its last count
SectionCases ==
    (script = "analyze_synthesis" /\ files.sync_report.exists) =>
        LET ls == files.sync_report.lines
        IN  /\ (Len(ls) = 3 /\ ls[1].k = "marker" /\ ls[2].k = "blank" /\ ls[3].k = "cell")
                  => sync_data.results.cells = <<[key |-> ls[3].name, val |-> ls[3].a]>>
            /\ (Len(ls) = 3 /\ ls[1].k = "marker" /\ ls[2].k = "cell" /\ ls[3].k = "cell"
                 /\ ls[2].name = ls[3].name)
                  => sync_data.results.cells = <<[key |-> ls[3].name, val |-> ls[3].a]>>
            /\ (Len(ls) = 3 /\ ls[1].k = "marker" /\ ls[2].k = "sep" /\ ls[3].k = "cell")
                  => sync_data.results.cells = <<>>

---------------------------------------------------------------------------
(* Properties of check_test_execution applied repeatedly.                  *)

PassedOnlyIfExecuted(tests) == \A i \in 1..Len(tests) : tests[i].passed => tests[i].executed

\* C18: for scenarios of extract_tests_from_testbench passed through
\* check_test_execution any number of times, against the same or other logs
\* (missing ones too), passed = true implies executed = true; so in the
\* coverage report the passed total is at most the executed total and the
\* pass rate at most 100%.
C18_PassedImpliesExecuted ==
    script = "check_coverage" =>
        /\ PassedOnlyIfExecuted(sync_data)
        /\ PassedOnlyIfExecuted(async_data)
        /\ CountScenariosPassed(sync_data \o async_data)
              <= CountExecuted(sync_data) + CountExecuted(async_data)
        /\ \A i \in 1..Len(output) :
              output[i].k = "pass_rate" =>
                  /\ output[i].a = CountScenariosPassed(sync_data \o async_data)
                  /\ output[i].b = CountExecuted(sync_data) + CountExecuted(async_data)
                  /\ output[i].a <= output[i].b
                  /\ output[i].c <= 100

\* C18's case: a scenario that an earlier log made pass has gone through
\* check_test_execution again with a missing log, and is reported
C18_Witness ==
    /\ script = "check_coverage"
    /\ pc = "done"
    /\ ~files.sync_log.exists
    /\ Len(sync_data) > 0
    /\ sync_data[1].passed
    /\ sync_data[1].executed
    /\ \E i \in 1..Len(output) : output[i].k = "pass_rate" /\ output[i].c = 100

---------------------------------------------------------------------------
(* Properties of the execution results of a log.                           *)

\* the name of a result line as the matcher keys it
Folded(l) == Lower(Strip(l.name))

\* the result lines of a log whose names are equal to key after case-folding
Occurrences(ls, key) == {i \in 1..Len(ls) : ls[i].k = "test" /\ Folded(ls[i]) = key}

FirstOccurrence(ls, key) ==
    CHOOSE i \in Occurrences(ls, key) : \A j \in Occurrences(ls, key) : i <= j

LastOccurrence(ls, key) ==
    CHOOSE i \in Occurrences(ls, key) : \A j \in Occurrences(ls, key) : j <= i

\* one execution result per case-folded name, at the place of the name's
\* first line, with the verdict of its last line; a scenario whose
\* description is that name has the verdict of the last line
OneResultPerName(log_file, tests) ==
    LET ls == log_file.lines
        executed_tests == ExecutedTests(ls)
    IN  /\ \A i \in 1..Len(ls) : ls[i].k = "test" => DictHas(executed_tests, Folded(ls[i]))
        /\ \A i \in 1..Len(executed_tests) :
              /\ Occurrences(ls, executed_tests[i].key) # {}
              /\ executed_tests[i].val =
                    (ls[LastOccurrence(ls, executed_tests[i].key)].verdict = "PASS")
              /\ \A j \in 1..Len(executed_tests) :
                    i < j <=> FirstOccurrence(ls, executed_tests[i].key)
                                < FirstOccurrence(ls, executed_tests[j].key)
        /\ \A n \in 1..Len(tests) :
              Occurrences(ls, Lower(tests[n].description)) # {} =>
                  /\ tests[n].executed
                  /\ tests[n].passed <=>
                        ls[LastOccurrence(ls, Lower(tests[n].description))].verdict = "PASS"

\* C19: when a log holds two or more result lines whose names are equal
\* after case-folding, the matcher keeps one execution result for the name,
\* at the position of its first occurrence and with the pass/fail value of
\* its last occurrence; a scenario bound to the name is PASS iff the last
\* occurrence is PASS.
C19_DuplicateResults ==
    Matched =>
        /\ OneResultPerName(files.sync_log, sync_data)
        /\ OneResultPerName(files.async_log, async_data)

\* C19's case: "Reset Behavior" PASS, another result, and then
\* "RESET BEHAVIOR" FAIL; the result kept for the name is the first of two
\* and is FAIL, and so is the scenario
C19_Witness ==
    /\ Matched
    /\ Len(files.sync_log.lines) = 3
    /\ Folded(files.sync_log.lines[1]) = Folded(files.sync_log.lines[3])
    /\ Folded(files.sync_log.lines[1]) # Folded(files.sync_log.lines[2])
    /\ files.sync_log.lines[1].verdict = "PASS"
    /\ files.sync_log.lines[3].verdict = "FAIL"
    /\ Len(ExecutedTests(files.sync_log.lines)) = 2
    /\ ExecutedTests(files.sync_log.lines)[1] =
          [key |-> Folded(files.sync_log.lines[1]), val |-> FALSE]
    /\ Len(sync_data) > 0
    /\ Lower(sync_data[1].description) = Folded(files.sync_log.lines[1])
    /\ sync_data[1].executed
    /\ ~sync_data[1].passed

====
